---- MODULE Spec2Model ----
(***************************************************************************)
(* A model of the GIF encoder of image-gif (src/src/encoder.rs) with the   *)
(* byte sink it writes to (src/src/io.rs, src/src/traits.rs).              *)
(*                                                                         *)
(* Bytes are the naturals 0..255, byte strings are sequences of bytes.     *)
(* An Option<T> is a sequence of length 0 (None) or 1 (Some).              *)
(***************************************************************************)
EXTENDS Integers, Sequences, FiniteSets, TLC

VARIABLES
    pc,              \* where the encoder value is in its life:
                     \*   "start"  no encoder yet (Encoder::new not called)
                     \*   "live"   the caller owns an Encoder
                     \*   "drop"   the Encoder value was moved into a call
                     \*            that has finished; Drop::drop is pending
                     \*   "done"   Drop::drop has returned
                     \*   "panic"  Drop::drop panicked (unwrap of an Err)
    w,               \* Encoder.w: TRUE = Some(sink), FALSE = None
    global_palette,  \* Encoder.global_palette
    width,           \* Encoder.width
    height,          \* Encoder.height
    buffer,          \* Encoder.buffer, the LZW scratch buffer
    sink,            \* every byte the sink W has accepted, in order
    result,          \* what the last call returned ("none" before any call)
    last,            \* the last call: [op |-> name, arg |-> its argument]
    pre,             \* Len(sink) when the last call started
    calls,           \* Encoder::new and the write calls made on the encoder
                     \*   after it, in order, each [op, arg, res]
    trailers,        \* trailer bytes the sink accepted from write_trailer
    trailer_writes,  \* one entry per write_all call of write_trailer: TRUE
                     \*   when the sink accepted the byte, FALSE when it failed
    sigs,            \* times write_screen_desc wrote the signature
    size,            \* argument of flag_size             (SpecTable)
    table,           \* argument of check_color_table     (SpecTable)
    fs,              \* <<flag_size(size)>> once applied  (SpecTable)
    chk,             \* <<check_color_table(table)>> once applied
    emitted,         \* <<bytes of write_color_table>> once applied
    call,            \* the method applied and its arguments    (SpecCalls)
    ret              \* <<what that method did>> once applied   (SpecCalls)

encVars == <<pc, w, global_palette, width, height, buffer, sink, result,
             last, pre, calls, trailers, trailer_writes, sigs>>
fnVars == <<size, table, fs, chk, emitted, call, ret>>
vars == <<encVars, fnVars>>

----------------------------------------------------------------------------
(* Bounds of the model.                                                    *)

\* write calls made on one encoder between construction and finalization
MaxOps == 2
\* flag_size is applied to 0..MaxSize, palettes have 0..MaxSize triplets
MaxSize == 300
\* bytes of a palette argument past its last whole triplet
MaxExcess == 2
\* the width of usize in the model: 16 bits, the narrowest usize that From<u16>
\* allows, so that checked_mul can return None
UsizeBits == 16
\* bytes that follow the min code size byte of an encoded image block
MaxPayload == 520
\* the largest small loop count of set_repeat(Finite(n))
MaxLoops == 3
\* pixels of a frame buffer handed to the LZW compressor
MaxIndices == 3

----------------------------------------------------------------------------
(* Integer helpers: what the Rust integer methods compute.                 *)

RECURSIVE Pow2(_)
Pow2(n) == IF n = 0 THEN 1 ELSE 2 * Pow2(n - 1)

RECURSIVE PowerOfTwoFrom(_, _)
PowerOfTwoFrom(p, n) == IF p >= n THEN p ELSE PowerOfTwoFrom(2 * p, n)

\* usize::next_power_of_two: the smallest power of two >= n
next_power_of_two(n) == PowerOfTwoFrom(1, n)

RECURSIVE trailing_zeros(_)
\* trailing_zeros of n > 0
trailing_zeros(n) == IF n % 2 = 1 THEN 0 ELSE 1 + trailing_zeros(n \div 2)

\* Ord::clamp
clamp(n, lo, hi) == IF n < lo THEN lo ELSE IF n > hi THEN hi ELSE n

Max(a, b) == IF a >= b THEN a ELSE b
Min(a, b) == IF a <= b THEN a ELSE b

RECURSIVE BitOr(_, _)
\* a | b on naturals
BitOr(a, b) ==
    IF a = 0 THEN b
    ELSE IF b = 0 THEN a
    ELSE (IF a % 2 = 1 \/ b % 2 = 1 THEN 1 ELSE 0)
         + 2 * BitOr(a \div 2, b \div 2)

\* (a << n) on a u8
Shl8(a, n) == (a * Pow2(n)) % 256

\* u16::to_le_bytes
to_le_bytes(n) == <<n % 256, (n \div 256) % 256>>

\* n copies of the byte string s
Repeated(s, n) == [i \in 1 .. n * Len(s) |-> s[((i - 1) % Len(s)) + 1]]

\* the first n elements of s
Take(s, n) == SubSeq(s, 1, n)
\* s without its first n elements
Skip(s, n) == SubSeq(s, n + 1, Len(s))

----------------------------------------------------------------------------
(* Block and extension labels of common.rs.                                *)

BlockImage == 44
BlockExtension == 33
BlockTrailer == 59
ExtensionControl == 249
ExtensionApplication == 255

\* b"GIF89a"
Signature == <<71, 73, 70, 56, 57, 97>>
\* b"NETSCAPE2.0"
Netscape == <<78, 69, 84, 83, 67, 65, 80, 69, 50, 46, 48>>

----------------------------------------------------------------------------
(* The color table.                                                        *)

\* a flag_size that does not clamp its argument from above
flag_size_unclamped(sz) ==
    trailing_zeros(next_power_of_two(Max(sz, 2))) - 1

\* a flag_size that does not subtract one
flag_size_whole(sz) ==
    trailing_zeros(next_power_of_two(clamp(sz, 2, 255)))

\* fn flag_size(size: usize) -> u8
flag_size(sz) ==
    trailing_zeros(next_power_of_two(clamp(sz, 2, 255))) - 1

\* a check_color_table that also rejects a length that is no multiple of 3
check_color_table_strict(t) ==
    LET num_colors == Len(t) \div 3
        table_size == flag_size(num_colors)
    IN  IF num_colors > 256 \/ Len(t) % 3 # 0
        THEN [ok |-> FALSE, err |-> "TooManyColors",
              palette |-> <<>>, padding |-> 0, table_size |-> 0]
        ELSE [ok |-> TRUE, err |-> "none",
              palette |-> Take(t, num_colors * 3),
              padding |-> 2 * Pow2(table_size) - num_colors,
              table_size |-> table_size]

\* fn check_color_table(table) -> Result<(&[u8], usize, u8), EncodingError>
\*   Err: [ok |-> FALSE, err]; Ok((palette, padding, table_size)) otherwise
check_color_table(t) ==
    LET num_colors == Len(t) \div 3
        table_size == flag_size(num_colors)
    IN  IF num_colors > 256
        THEN [ok |-> FALSE, err |-> "TooManyColors",
              palette |-> <<>>, padding |-> 0, table_size |-> 0]
        ELSE [ok |-> TRUE, err |-> "none",
              palette |-> Take(t, num_colors * 3),
              padding |-> 2 * Pow2(table_size) - num_colors,
              table_size |-> table_size]

\* a write_color_table that pads with one triplet too few
write_color_table_short(t, padding) ==
    t \o Repeated(<<0, 0, 0>>, IF padding > 0 THEN padding - 1 ELSE 0)

\* fn write_color_table(writer, table, padding): the bytes it hands to
\* write_all, in order
write_color_table(t, padding) == t \o Repeated(<<0, 0, 0>>, padding)

----------------------------------------------------------------------------
(* LZW.  lzw_encode is this repository's; the code stream itself is made   *)
(* by the weezl crate, modelled here as the GIF variable-width LZW of the  *)
(* specification: least-significant-bit-first packing, a clear code first, *)
(* an end-of-information code last, and the code width growing when the    *)
(* next free code no longer fits.  Inputs of the model stay far below the  *)
(* 4096-entry dictionary limit, so the dictionary is never reset.          *)

\* the position of string s in dictionary d, 0 when absent
DictIndex(d, s) ==
    IF \E i \in 1..Len(d) : d[i] = s
    THEN CHOOSE i \in 1..Len(d) : d[i] = s
    ELSE 0

\* the code of string s: a root code, or the dictionary entry's code
CodeOf(d, s, clear) ==
    IF Len(s) = 1 THEN s[1] ELSE clear + 1 + DictIndex(d, s)

\* the code width in force after a code was written with cw bits while the
\* dictionary held Len(d) entries
WidthAfter(d, clear, cw) ==
    IF clear + 2 + Len(d) > Pow2(cw) - 1 /\ cw < 12
    THEN cw + 1 ELSE cw

RECURSIVE LzwCodes(_, _, _, _, _, _)
\* the codes, each [c |-> code, n |-> bits], for data[i..] given the
\* dictionary d, the pending string cur and the current code width cw
LzwCodes(data, i, d, cur, clear, cw) ==
    IF i > Len(data)
    THEN (IF cur = <<>> THEN <<>>
          ELSE <<[c |-> CodeOf(d, cur, clear), n |-> cw]>>)
         \o <<[c |-> clear + 1,
               n |-> IF cur = <<>> THEN cw
                     ELSE WidthAfter(d, clear, cw)]>>
    ELSE LET ext == Append(cur, data[i])
         IN  IF Len(ext) = 1 \/ DictIndex(d, ext) # 0
             THEN LzwCodes(data, i + 1, d, ext, clear, cw)
             ELSE <<[c |-> CodeOf(d, cur, clear), n |-> cw]>>
                  \o LzwCodes(data, i + 1, Append(d, ext), <<data[i]>>,
                              clear, WidthAfter(d, clear, cw))

RECURSIVE PackLsb(_, _, _, _)
\* codes[i..] packed least significant bit first; acc holds nbits pending bits
PackLsb(codes, i, acc, nbits) ==
    IF nbits >= 8
    THEN <<acc % 256>> \o PackLsb(codes, i, acc \div 256, nbits - 8)
    ELSE IF i > Len(codes)
    THEN (IF nbits > 0 THEN <<acc>> ELSE <<>>)
    ELSE PackLsb(codes, i + 1, acc + codes[i].c * Pow2(nbits),
                 nbits + codes[i].n)

\* weezl: Encoder::new(BitOrder::Lsb, min_code_size).encode_all(data)
LzwEncodeAll(data, min_code_size) ==
    LET clear == Pow2(min_code_size)
    IN  PackLsb(<<[c |-> clear, n |-> min_code_size + 1]>>
                \o LzwCodes(data, 1, <<>>, <<>>, clear, min_code_size + 1),
                1, 0, 0)

RECURSIVE ScanMaxByte_break_first(_, _, _)
\* a scan that leaves the loop at a byte above 127 before it records it
ScanMaxByte_break_first(data, i, max_byte) ==
    IF i > Len(data) THEN max_byte
    ELSE IF data[i] > max_byte
         THEN IF data[i] > 127 THEN max_byte
              ELSE ScanMaxByte_break_first(data, i + 1, data[i])
         ELSE ScanMaxByte_break_first(data, i + 1, max_byte)

RECURSIVE ScanMaxByte(_, _, _)
\* the loop of lzw_encode over data[i..]: the running maximum, left as soon
\* as a byte above 127 becomes the maximum
ScanMaxByte(data, i, max_byte) ==
    IF i > Len(data) THEN max_byte
    ELSE IF data[i] > max_byte
         THEN IF data[i] > 127 THEN data[i]
              ELSE ScanMaxByte(data, i + 1, data[i])
         ELSE ScanMaxByte(data, i + 1, max_byte)

\* the min_code_size lzw_encode chooses for data
MinCodeSize(data) ==
    LET palette_min_len == ScanMaxByte(data, 1, 0) + 1
    IN  trailing_zeros(next_power_of_two(Max(palette_min_len, 4)))

\* fn lzw_encode(data, buffer): buffer as lzw_encode leaves it, given the
\* buffer buf it was handed
lzw_encode(data, buf) ==
    LET min_code_size == MinCodeSize(data)
        pushed  == Append(buf, min_code_size)
        encoded == LzwEncodeAll(data, min_code_size)
        len     == Len(encoded)   \* consumed_out
    IN  Take(pushed \o encoded, len + 1)

----------------------------------------------------------------------------
(* Arguments.                                                              *)

\* Repeat::Finite(n) and Repeat::Infinite
Finite(n) == [finite |-> TRUE, no |-> n]
Infinite == [finite |-> FALSE, no |-> 0]

\* ExtensionData::Control { flags, delay, trns }
Control(flags, delay, trns) ==
    [kind |-> "Control", flags |-> flags, delay |-> delay, trns |-> trns,
     repeat |-> Finite(0)]
\* ExtensionData::Repetitions(repeat)
Repetitions(r) ==
    [kind |-> "Repetitions", flags |-> 0, delay |-> 0, trns |-> 0,
     repeat |-> r]

\* DisposalMethod as u8
DisposeAny == 0
DisposeKeep == 1
DisposeBackground == 2
DisposePrevious == 3

\* a new_control_ext that puts the disposal method one bit too high
new_control_ext_dispose_shift3(delay, dispose, needs_user_input, trns) ==
    LET flags0 == 0
        flags1 == IF trns # <<>> THEN BitOr(flags0, 1) ELSE flags0
        t      == IF trns # <<>> THEN trns[1] ELSE 0
        flags2 == BitOr(flags1, Shl8(IF needs_user_input THEN 1 ELSE 0, 1))
        flags3 == BitOr(flags2, Shl8(dispose, 3))
    IN  Control(flags3, delay, t)

\* ExtensionData::new_control_ext(delay, dispose, needs_user_input, trns)
new_control_ext(delay, dispose, needs_user_input, trns) ==
    LET flags0 == 0
        flags1 == IF trns # <<>> THEN BitOr(flags0, 1) ELSE flags0
        t      == IF trns # <<>> THEN trns[1] ELSE 0
        flags2 == BitOr(flags1, Shl8(IF needs_user_input THEN 1 ELSE 0, 1))
        flags3 == BitOr(flags2, Shl8(dispose, 2))
    IN  Control(flags3, delay, t)

----------------------------------------------------------------------------
(* The methods of Encoder.  A method is modelled by its outcome on a sink  *)
(* that accepts every byte: [out |-> the bytes handed to write_all, in     *)
(* order, res |-> what the method returns].  A sink that fails cuts the    *)
(* method short after a prefix of out (see Cut).                           *)

Outcome(out, res) == [out |-> out, res |-> res]

\* a writer() that never misses the sink
writer_always_ok(present) == "Ok"

\* Encoder::writer(): Ok iff w is Some
writer(present) == IF present THEN "Ok" ELSE "WriterNotFound"

\* a write_screen_desc that writes the signature of the older format
write_screen_desc_gif87(cw, ch, flags) ==
    <<71, 73, 70, 56, 55, 97>> \o to_le_bytes(cw) \o to_le_bytes(ch)
    \o <<flags>> \o <<0>> \o <<0>>

\* Encoder::write_screen_desc(flags), with the writer present
write_screen_desc(cw, ch, flags) ==
    Signature \o to_le_bytes(cw) \o to_le_bytes(ch) \o <<flags>> \o <<0>> \o <<0>>

\* a write_global_palette that writes no color table for an empty palette
write_global_palette_skips_empty(cw, ch, palette) ==
    LET flags0 == BitOr(0, 128)
        c      == check_color_table(palette)
        flags1 == BitOr(flags0, c.table_size)
        flags2 == BitOr(flags1, Shl8(c.table_size, 4))
    IN  IF ~c.ok
        THEN [out |-> <<>>, res |-> c.err, gp |-> FALSE]
        ELSE [out |-> write_screen_desc(cw, ch, flags2)
                      \o (IF c.palette = <<>> THEN <<>>
                          ELSE write_color_table(c.palette, c.padding)),
              res |-> "Ok",
              gp  |-> (c.palette # <<>>)]

\* a write_global_palette that leaves the color resolution bits 6-4 clear
write_global_palette_no_resolution(cw, ch, palette) ==
    LET flags0 == BitOr(0, 128)
        c      == check_color_table(palette)
        flags1 == BitOr(flags0, c.table_size)
    IN  IF ~c.ok
        THEN [out |-> <<>>, res |-> c.err, gp |-> FALSE]
        ELSE [out |-> write_screen_desc(cw, ch, flags1)
                      \o write_color_table(c.palette, c.padding),
              res |-> "Ok",
              gp  |-> (c.palette # <<>>)]

\* a write_global_palette that sets the flag for every non-empty argument
write_global_palette_flags_input(cw, ch, palette) ==
    LET flags0 == BitOr(0, 128)
        c      == check_color_table(palette)
        flags1 == BitOr(flags0, c.table_size)
        flags2 == BitOr(flags1, Shl8(c.table_size, 4))
    IN  IF ~c.ok
        THEN [out |-> <<>>, res |-> c.err, gp |-> FALSE]
        ELSE [out |-> write_screen_desc(cw, ch, flags2)
                      \o write_color_table(c.palette, c.padding),
              res |-> "Ok",
              gp  |-> (palette # <<>>)]

\* Encoder::write_global_palette(palette), called by Encoder::new on
\* Self { w: Some(w), global_palette: false, width, height, buffer: [] };
\* gp is the global_palette field it leaves
write_global_palette(cw, ch, palette) ==
    LET flags0 == BitOr(0, 128)
        c      == check_color_table(palette)
        flags1 == BitOr(flags0, c.table_size)
        flags2 == BitOr(flags1, Shl8(c.table_size, 4))
    IN  IF ~c.ok
        THEN [out |-> <<>>, res |-> c.err, gp |-> FALSE]
        ELSE [out |-> write_screen_desc(cw, ch, flags2)
                      \o write_color_table(c.palette, c.padding),
              res |-> "Ok",
              gp  |-> (c.palette # <<>>)]

\* a write_extension without the early return for Repetitions(Finite(0))
write_extension_no_skip(present, e) ==
    IF writer(present) # "Ok"
    THEN Outcome(<<>>, writer(present))
    ELSE IF e.kind = "Control"
    THEN Outcome(<<BlockExtension>> \o <<ExtensionControl>> \o <<4>>
                 \o <<e.flags>> \o to_le_bytes(e.delay) \o <<e.trns>>
                 \o <<0>>, "Ok")
    ELSE Outcome(<<BlockExtension>> \o <<ExtensionApplication>> \o <<11>>
                 \o Netscape \o <<3>> \o <<1>>
                 \o to_le_bytes(IF e.repeat.finite THEN e.repeat.no ELSE 0)
                 \o <<0>>, "Ok")

\* Encoder::write_extension(extension)
write_extension(present, e) ==
    IF e.kind = "Repetitions" /\ e.repeat = Finite(0)
    THEN Outcome(<<>>, "Ok")
    ELSE IF writer(present) # "Ok"
    THEN Outcome(<<>>, writer(present))
    ELSE IF e.kind = "Control"
    THEN Outcome(<<BlockExtension>> \o <<ExtensionControl>> \o <<4>>
                 \o <<e.flags>> \o to_le_bytes(e.delay) \o <<e.trns>>
                 \o <<0>>, "Ok")
    ELSE Outcome(<<BlockExtension>> \o <<ExtensionApplication>> \o <<11>>
                 \o Netscape \o <<3>> \o <<1>>
                 \o to_le_bytes(IF e.repeat.finite THEN e.repeat.no ELSE 0)
                 \o <<0>>, "Ok")

\* Encoder::set_repeat(repeat)
set_repeat(present, repeat) == write_extension(present, Repetitions(repeat))

\* a palette match that also refuses a local palette beside a global one
palette_missing_unless_one(gp, f) == (f.palette = <<>>) = (~gp)

\* the last arm of the palette match of write_frame_header: neither
\* Some(palette) nor None if self.global_palette
palette_missing(gp, f) == f.palette = <<>> /\ ~gp

\* a write_frame_header that leaves the size of the local color table out
\* of the flags
write_frame_header_no_table_size(present, gp, f) ==
    LET ext    == write_extension(present,
                      new_control_ext(f.delay, f.dispose,
                                      f.needs_user_input, f.transparent))
        flags0 == IF f.interlaced THEN BitOr(0, 64) ELSE 0
        c      == check_color_table(f.palette[1])
        flags1 == BitOr(flags0, 128)
        flags  == IF f.palette # <<>> THEN flags1 ELSE flags0
        desc   == <<BlockImage>> \o to_le_bytes(f.left) \o to_le_bytes(f.top)
                  \o to_le_bytes(f.width) \o to_le_bytes(f.height)
                  \o <<flags>>
    IN  IF ext.res # "Ok" THEN ext
        ELSE IF f.palette # <<>> /\ ~c.ok
        THEN Outcome(ext.out, c.err)
        ELSE IF palette_missing(gp, f)
        THEN Outcome(ext.out, "MissingColorPalette")
        ELSE IF writer(present) # "Ok"
        THEN Outcome(ext.out, writer(present))
        ELSE Outcome(ext.out \o desc
                     \o (IF f.palette # <<>>
                         THEN write_color_table(c.palette, c.padding)
                         ELSE <<>>),
                     "Ok")

\* Encoder::write_frame_header(frame)
write_frame_header(present, gp, f) ==
    LET ext    == write_extension(present,
                      new_control_ext(f.delay, f.dispose,
                                      f.needs_user_input, f.transparent))
        flags0 == IF f.interlaced THEN BitOr(0, 64) ELSE 0
        c      == check_color_table(f.palette[1])
        flags1 == BitOr(BitOr(flags0, 128), c.table_size)
        flags  == IF f.palette # <<>> THEN flags1 ELSE flags0
        desc   == <<BlockImage>> \o to_le_bytes(f.left) \o to_le_bytes(f.top)
                  \o to_le_bytes(f.width) \o to_le_bytes(f.height)
                  \o <<flags>>
    IN  IF ext.res # "Ok" THEN ext
        ELSE IF f.palette # <<>> /\ ~c.ok
        THEN Outcome(ext.out, c.err)
        ELSE IF palette_missing(gp, f)
        THEN Outcome(ext.out, "MissingColorPalette")
        ELSE IF writer(present) # "Ok"
        THEN Outcome(ext.out, writer(present))
        ELSE Outcome(ext.out \o desc
                     \o (IF f.palette # <<>>
                         THEN write_color_table(c.palette, c.padding)
                         ELSE <<>>),
                     "Ok")

RECURSIVE FullBlocks(_)
\* the loop over data.chunks_exact(0xFF): each full block after 0xFF
FullBlocks(data) ==
    IF Len(data) < 255 THEN <<>>
    ELSE <<255>> \o Take(data, 255) \o FullBlocks(Skip(data, 255))

\* a write_encoded_image_block that writes the remainder even when it is
\* empty
write_encoded_image_block_always_last(d) ==
    LET min_code_size == IF d = <<>> THEN 2 ELSE d[1]
        data          == IF d = <<>> THEN <<>> ELSE Tail(d)
        last_block    == Skip(data, (Len(data) \div 255) * 255)
    IN  <<min_code_size>> \o FullBlocks(data)
        \o <<Len(last_block) % 256>> \o last_block
        \o <<0>>

\* a write_encoded_image_block whose default for an empty buffer is a min
\* code size of 0
write_encoded_image_block_default_0(d) ==
    LET min_code_size == IF d = <<>> THEN 0 ELSE d[1]
        data          == IF d = <<>> THEN <<>> ELSE Tail(d)
        last_block    == Skip(data, (Len(data) \div 255) * 255)
    IN  <<min_code_size>> \o FullBlocks(data)
        \o (IF last_block # <<>>
            THEN <<Len(last_block) % 256>> \o last_block ELSE <<>>)
        \o <<0>>

\* Encoder::write_encoded_image_block(writer, data_with_min_code_size)
write_encoded_image_block(d) ==
    LET min_code_size == IF d = <<>> THEN 2 ELSE d[1]
        data          == IF d = <<>> THEN <<>> ELSE Tail(d)
        last_block    == Skip(data, (Len(data) \div 255) * 255)
    IN  <<min_code_size>> \o FullBlocks(data)
        \o (IF last_block # <<>>
            THEN <<Len(last_block) % 256>> \o last_block ELSE <<>>)
        \o <<0>>

\* a scratch buffer that keeps what the frame before left in it
buffer_clear_skipped(buf) == buf

\* self.buffer.clear() at the start of write_image_block
buffer_clear(buf) == <<>>

\* Encoder::write_image_block(data): buf is Encoder.buffer on entry, alloc
\* says whether try_reserve succeeds; buf is the buffer it leaves
write_image_block(present, buf, data, alloc) ==
    LET cleared == buffer_clear(buf)
        encoded == lzw_encode(data, cleared)
    IN  IF ~alloc
        THEN [out |-> <<>>, res |-> "OutOfMemory", buf |-> cleared]
        ELSE IF writer(present) # "Ok"
        THEN [out |-> <<>>, res |-> writer(present), buf |-> encoded]
        ELSE [out |-> write_encoded_image_block(encoded), res |-> "Ok",
              buf |-> encoded]

\* usize::checked_mul: None when the product does not fit a usize
checked_mul(a, b) ==
    IF b # 0 /\ a > (Pow2(UsizeBits) - 1) \div b THEN <<>> ELSE <<a * b>>

\* a guard that also refuses a buffer of exactly width * height bytes
BufferTooSmall_or_equal(f) ==
    LET product == checked_mul(f.width, f.height)
    IN  IF product = <<>> THEN TRUE ELSE Len(f.buffer) <= product[1]

\* the guard of write_frame:
\* usize::from(width).checked_mul(usize::from(height))
\*     .map_or(true, |size| frame.buffer.len() < size)
BufferTooSmall(f) ==
    LET product == checked_mul(f.width, f.height)
    IN  IF product = <<>> THEN TRUE ELSE Len(f.buffer) < product[1]

\* Encoder::write_frame(frame).  Besides out and res: hdr is the number of
\* bytes of out written before write_image_block starts, touched whether
\* write_image_block is reached, buf the buffer it leaves
write_frame(present, gp, buf, f, alloc) ==
    LET h   == write_frame_header(present, gp, f)
        img == write_image_block(present, buf, f.buffer, alloc)
    IN  IF BufferTooSmall(f)
        THEN [out |-> <<>>, res |-> "FrameBufferTooSmallForDimensions",
              hdr |-> 0, touched |-> FALSE, buf |-> buf]
        ELSE IF h.res # "Ok"
        THEN [out |-> h.out, res |-> h.res,
              hdr |-> Len(h.out), touched |-> FALSE, buf |-> buf]
        ELSE [out |-> h.out \o img.out, res |-> img.res,
              hdr |-> Len(h.out), touched |-> TRUE, buf |-> img.buf]

\* a write_lzw_pre_encoded_frame that accepts a min code size of 12
write_lzw_pre_encoded_frame_accepts_12(present, gp, f) ==
    LET h == write_frame_header(present, gp, f)
    IN  IF f.buffer # <<>> /\ (f.buffer[1] > 12 \/ f.buffer[1] < 2)
        THEN Outcome(<<>>, "InvalidMinCodeSize")
        ELSE IF h.res # "Ok" THEN h
        ELSE IF writer(present) # "Ok"
        THEN Outcome(h.out, writer(present))
        ELSE Outcome(h.out \o write_encoded_image_block(f.buffer), "Ok")

\* Encoder::write_lzw_pre_encoded_frame(frame)
write_lzw_pre_encoded_frame(present, gp, f) ==
    LET h == write_frame_header(present, gp, f)
    IN  IF f.buffer # <<>> /\ (f.buffer[1] > 11 \/ f.buffer[1] < 2)
        THEN Outcome(<<>>, "InvalidMinCodeSize")
        ELSE IF h.res # "Ok" THEN h
        ELSE IF writer(present) # "Ok"
        THEN Outcome(h.out, writer(present))
        ELSE Outcome(h.out \o write_encoded_image_block(f.buffer), "Ok")

\* a make_lzw_pre_encoded that encodes into the buffer it replaces
make_lzw_pre_encoded_in_place(f) ==
    [f EXCEPT !.buffer = lzw_encode(f.buffer, f.buffer)]

\* Frame::make_lzw_pre_encoded(&mut self): the frame it leaves (try_reserve
\* succeeding)
make_lzw_pre_encoded(f) ==
    [f EXCEPT !.buffer = lzw_encode(f.buffer, <<>>)]

RECURSIVE chunks_with_empty(_)
\* a loop that writes a length byte for an empty slice too
chunks_with_empty(block) ==
    IF block = <<>> THEN <<0>>
    ELSE LET n == Min(Len(block), 255)
         IN  <<n % 256>> \o Take(block, n)
             \o (IF Len(block) > n THEN chunks_with_empty(Skip(block, n))
                 ELSE <<>>)

RECURSIVE Chunks(_)
\* the loop over block.chunks(0xFF): each chunk after its length byte
Chunks(block) ==
    IF block = <<>> THEN <<>>
    ELSE LET n == Min(Len(block), 255)
         IN  <<n % 256>> \o Take(block, n) \o Chunks(Skip(block, n))

RECURSIVE AllChunks_joined(_)
\* a loop that divides the slices of data as one run of bytes
AllChunks_joined(data) ==
    IF data = <<>> THEN <<>>
    ELSE IF Len(data) = 1 THEN Chunks(data[1])
    ELSE AllChunks_joined(<<data[1] \o data[2]>> \o Tail(Tail(data)))

RECURSIVE AllChunks(_)
\* the loop over the slices of data
AllChunks(data) ==
    IF data = <<>> THEN <<>>
    ELSE Chunks(Head(data)) \o AllChunks(Tail(data))

\* Encoder::write_raw_extension(func, data)
write_raw_extension(present, func, data) ==
    IF writer(present) # "Ok" THEN Outcome(<<>>, writer(present))
    ELSE Outcome(<<BlockExtension>> \o <<func>> \o AllChunks(data) \o <<0>>,
                 "Ok")

\* Encoder::write_trailer()
write_trailer(present) ==
    IF writer(present) # "Ok" THEN Outcome(<<>>, writer(present))
    ELSE Outcome(<<BlockTrailer>>, "Ok")

\* an into_inner that leaves the sink in the encoder
into_inner_keeps_sink(present, ok) ==
    LET t == write_trailer(present)
    IN  IF t.res # "Ok" THEN [res |-> t.res, w |-> present]
        ELSE IF ~ok THEN [res |-> "Io", w |-> present]
        ELSE [res |-> "Ok", w |-> present]

\* an into_inner that takes the sink before it writes the trailer
into_inner_takes_first(present, ok) ==
    LET t == write_trailer(present)
    IN  IF t.res # "Ok" THEN [res |-> t.res, w |-> FALSE]
        ELSE IF ~ok THEN [res |-> "Io", w |-> FALSE]
        ELSE [res |-> "Ok", w |-> FALSE]

\* Encoder::into_inner(self) when the sink accepts the trailer (ok) or fails:
\* what it returns and whether w is still Some afterwards
into_inner(present, ok) ==
    LET t == write_trailer(present)
    IN  IF t.res # "Ok" THEN [res |-> t.res, w |-> present]
        ELSE IF ~ok THEN [res |-> "Io", w |-> present]
        ELSE [res |-> "Ok", w |-> FALSE]   \* self.w.take()

\* Drop::drop(&mut self): whether it calls write_trailer
drop_writes(present) == present

\* a drop that unwraps the result of write_trailer in every build
drop_ends_unwrapped(res, raii_no_panic) ==
    IF res = "Ok" THEN "done" ELSE "panic"

\* how Drop::drop ends on the result res of write_trailer: with the feature
\* raii_no_panic the result is discarded, without it it is unwrapped
drop_ends(res, raii_no_panic) ==
    IF res = "Ok" \/ raii_no_panic THEN "done" ELSE "panic"

----------------------------------------------------------------------------
(* The sink.  A call hands the bytes of out to write_all one call after    *)
(* the other; the sink either accepts them all, or fails after it has      *)
(* accepted k of them, 0 <= k < Len(out), and the method returns the Io    *)
(* error at once.  NoFail stands for a sink that accepts everything.       *)

NoFail == 0 - 1

\* where the sink may fail while out is written
FailPoints(out) == {NoFail} \cup (0 .. Len(out) - 1)

\* the bytes the sink accepts of out when it fails at k
Cut(out, k) == IF k = NoFail THEN out ELSE Take(out, k)

\* what the method returns when the sink fails at k
Returned(res, k) == IF k = NoFail THEN res ELSE "Io"

----------------------------------------------------------------------------
(* The arguments the callers of the model pass.  The state names a palette *)
(* or a frame by its key in these tables.                                  *)

\* a palette of n triplets and x excess bytes; no byte of it is zero
Palette(n, x) == [i \in 1 .. (3 * n + x) |-> ((i - 1) % 255) + 1]

\* [r, g, b, ...] of two colors
Pal2 == <<255, 255, 255, 1, 2, 3>>
\* 257 triplets: one too many
PalTooBig == Palette(257, 0)

\* two bytes: not empty, and no whole triplet
PalShort == <<9, 9>>

GlobalPalettes == {"empty", "short", "two", "toobig"}
PaletteOf(p) ==
    CASE p = "empty"  -> <<>>
      [] p = "short"  -> PalShort
      [] p = "two"    -> Pal2
      [] p = "toobig" -> PalTooBig

Canvases == {<<1, 1>>}

\* Frame::default() with a 1x1 buffer holding index 8
Plain ==
    [left |-> 0, top |-> 0, width |-> 1, height |-> 1, delay |-> 0,
     dispose |-> DisposeKeep, needs_user_input |-> FALSE,
     transparent |-> <<>>, interlaced |-> FALSE, palette |-> <<>>,
     buffer |-> <<8>>]
\* a frame with its own palette and every field set
Local ==
    [left |-> 258, top |-> 1, width |-> 2, height |-> 1, delay |-> 515,
     dispose |-> DisposeBackground, needs_user_input |-> TRUE,
     transparent |-> <<1>>, interlaced |-> TRUE, palette |-> <<Pal2>>,
     buffer |-> <<2, 1>>]

Frames == {"plain", "local", "toomany", "bad"}
FrameOf(f) ==
    CASE f = "plain"   -> Plain
      [] f = "local"   -> Local
         \* a local palette that is too big
      [] f = "toomany" -> [Plain EXCEPT !.palette = <<PalTooBig>>]
         \* a buffer too small for 2x1 that starts with 0x01
      [] f = "bad"     -> [Plain EXCEPT !.width = 2, !.buffer = <<1>>]

Extensions == {Repetitions(Finite(0)), Repetitions(Infinite)}
\* (func, data) of write_raw_extension: a comment extension of two slices,
\* the first empty
RawExtensions == {<<254, << <<>>, <<7, 0>> >> >>}

\* whether try_reserve may fail: only when it reserves anything
AllocOutcomes(f) ==
    {TRUE} \cup (IF Len(FrameOf(f).buffer) \div 4 > 0 THEN {FALSE} ELSE {})

----------------------------------------------------------------------------
(* The life of one encoder.                                                *)

Init ==
    /\ pc = "start"
    /\ w = FALSE
    /\ global_palette = FALSE
    /\ width = 0
    /\ height = 0
    /\ buffer = <<>>
    /\ sink = <<>>
    /\ result = "none"
    /\ last = [op |-> "none", arg |-> <<>>]
    /\ pre = 0
    /\ calls = <<>>
    /\ trailers = 0
    /\ trailer_writes = <<>>
    /\ sigs = 0
    /\ size = 0
    /\ table = <<>>
    /\ fs = <<>>
    /\ chk = <<>>
    /\ emitted = <<>>
    /\ call = <<>>
    /\ ret = <<>>

\* Encoder::new(w, width, height, global_palette).  On Err the encoder
\* value built by new is dropped: Drop::drop is pending.
New(cw, ch, palette) ==
    LET o == write_global_palette(cw, ch, PaletteOf(palette))
    IN  \E k \in FailPoints(o.out) :
        /\ pc = "start"
        /\ pc' = IF Returned(o.res, k) = "Ok" THEN "live" ELSE "drop"
        /\ w' = TRUE
        /\ global_palette' = o.gp
        /\ width' = cw
        /\ height' = ch
        /\ buffer' = <<>>
        /\ sink' = sink \o Cut(o.out, k)
        /\ result' = Returned(o.res, k)
        /\ last' = [op |-> "new", arg |-> <<cw, ch, palette>>]
        /\ pre' = Len(sink)
        /\ calls' = <<[op |-> "new", arg |-> <<cw, ch, palette>>,
                       res |-> Returned(o.res, k)]>>
        /\ sigs' = IF Len(Cut(o.out, k)) >= Len(Signature)
                   THEN sigs + 1 ELSE sigs
        /\ UNCHANGED <<trailers, trailer_writes, fnVars>>

\* The caller may make another write call.  After an Io error the caller
\* discards the encoder (it finalizes or drops it), as the sink's state is
\* then unknown to it.
MayWrite == pc = "live" /\ Len(calls) - 1 < MaxOps /\ result # "Io"

\* a write call that gives up the sink when the sink fails
WriteCall_takes_sink(op, arg, o, k, buf) ==
    /\ MayWrite
    /\ sink' = sink \o Cut(o.out, k)
    /\ result' = Returned(o.res, k)
    /\ last' = [op |-> op, arg |-> arg]
    /\ pre' = Len(sink)
    /\ calls' = Append(calls, [op |-> op, arg |-> arg,
                               res |-> Returned(o.res, k)])
    /\ buffer' = buf
    /\ w' = (w /\ k = NoFail)
    /\ UNCHANGED <<pc, global_palette, width, height, trailers,
                   trailer_writes, sigs, fnVars>>

\* a write call op(arg) with outcome o on a sink that fails at k, leaving
\* the scratch buffer buf
WriteCall(op, arg, o, k, buf) ==
    /\ MayWrite
    /\ sink' = sink \o Cut(o.out, k)
    /\ result' = Returned(o.res, k)
    /\ last' = [op |-> op, arg |-> arg]
    /\ pre' = Len(sink)
    /\ calls' = Append(calls, [op |-> op, arg |-> arg,
                               res |-> Returned(o.res, k)])
    /\ buffer' = buf
    /\ UNCHANGED <<pc, w, global_palette, width, height, trailers,
                   trailer_writes, sigs, fnVars>>

\* Encoder::write_extension (set_repeat(r) is write_extension(Repetitions(r)))
WriteExtension(e) ==
    LET o == write_extension(w, e)
    IN  \E k \in FailPoints(o.out) :
            WriteCall("write_extension", e, o, k, buffer)

\* Encoder::write_raw_extension
WriteRawExtension(r) ==
    LET o == write_raw_extension(w, r[1], r[2])
    IN  \E k \in FailPoints(o.out) :
            WriteCall("write_raw_extension", r, o, k, buffer)

\* Encoder::write_frame
WriteFrame(f, alloc) ==
    LET o == write_frame(w, global_palette, buffer, FrameOf(f), alloc)
    IN  \E k \in FailPoints(o.out) :
            WriteCall("write_frame", f, o, k,
                      IF o.touched /\ (k = NoFail \/ k >= o.hdr)
                      THEN o.buf ELSE buffer)

\* Encoder::write_lzw_pre_encoded_frame
WriteLzwPreEncodedFrame(f) ==
    LET o == write_lzw_pre_encoded_frame(w, global_palette, FrameOf(f))
    IN  \E k \in FailPoints(o.out) :
            WriteCall("write_lzw_pre_encoded_frame", f, o, k, buffer)

\* Encoder::into_inner(self): self is consumed, so Drop::drop is pending
IntoInner ==
    LET o == write_trailer(w)
    IN  \E k \in FailPoints(o.out) :
        /\ pc = "live"
        /\ pc' = "drop"
        /\ sink' = sink \o Cut(o.out, k)
        /\ trailer_writes' = IF o.out = <<>> THEN trailer_writes
                             ELSE Append(trailer_writes, k = NoFail)
        /\ trailers' = trailers + Len(Cut(o.out, k))
        /\ result' = into_inner(w, k = NoFail).res
        /\ w' = into_inner(w, k = NoFail).w
        /\ last' = [op |-> "into_inner", arg |-> <<>>]
        /\ pre' = Len(sink)
        /\ UNCHANGED <<global_palette, width, height, buffer, calls, sigs,
                       fnVars>>

\* Drop::drop(&mut self), of a live encoder that goes out of scope or of one
\* a call consumed.  raii_no_panic is the build feature of that name, which
\* nothing but drop reads: with it the Err of write_trailer is discarded,
\* without it the Err is unwrapped and drop panics.
Drop(raii_no_panic) ==
    LET o == IF drop_writes(w) THEN write_trailer(w) ELSE Outcome(<<>>, "Ok")
    IN  \E k \in FailPoints(o.out) :
        /\ pc \in {"live", "drop"}
        /\ pc' = drop_ends(Returned(o.res, k), raii_no_panic)
        /\ sink' = sink \o Cut(o.out, k)
        /\ trailer_writes' = IF o.out = <<>> THEN trailer_writes
                             ELSE Append(trailer_writes, k = NoFail)
        /\ trailers' = trailers + Len(Cut(o.out, k))
        /\ UNCHANGED <<w, global_palette, width, height, buffer, result, last,
                       pre, calls, sigs, fnVars>>

Next ==
    \/ \E c \in Canvases, p \in GlobalPalettes : New(c[1], c[2], p)
    \/ \E e \in Extensions : WriteExtension(e)
    \/ \E r \in RawExtensions : WriteRawExtension(r)
    \/ \E f \in Frames : \E a \in AllocOutcomes(f) : WriteFrame(f, a)
    \/ \E f \in Frames : WriteLzwPreEncodedFrame(f)
    \/ IntoInner
    \/ \E feature \in BOOLEAN : Drop(feature)

Spec == Init /\ [][Next]_vars

----------------------------------------------------------------------------
(* The methods on an encoder whose sink was taken.  into_inner leaves the  *)
(* value Encoder { w: None, .. }; SpecClosed applies every method to it.   *)

InitClosed ==
    /\ pc = "live"
    /\ w = FALSE
    /\ global_palette \in BOOLEAN
    /\ width = 1
    /\ height = 1
    /\ buffer = <<>>
    /\ sink = <<>>
    /\ result = "none"
    /\ last = [op |-> "none", arg |-> <<>>]
    /\ pre = 0
    /\ calls = <<[op |-> "new",
                  arg |-> <<1, 1, IF global_palette THEN "two" ELSE "empty">>,
                  res |-> "Ok"]>>
    /\ trailers = 0
    /\ trailer_writes = <<>>
    /\ sigs = 0
    /\ size = 0
    /\ table = <<>>
    /\ fs = <<>>
    /\ chk = <<>>
    /\ emitted = <<>>
    /\ call = <<>>
    /\ ret = <<>>

NextClosed ==
    \/ \E e \in Extensions : WriteExtension(e)
    \/ \E r \in RawExtensions : WriteRawExtension(r)
    \/ \E f \in Frames : \E a \in AllocOutcomes(f) : WriteFrame(f, a)
    \/ \E f \in Frames : WriteLzwPreEncodedFrame(f)
    \/ IntoInner
    \/ \E feature \in BOOLEAN : Drop(feature)

SpecClosed == InitClosed /\ [][NextClosed]_vars

----------------------------------------------------------------------------
(* The color-table functions applied to arguments of every size.           *)

InitTable ==
    /\ pc = "start"
    /\ w = FALSE
    /\ global_palette = FALSE
    /\ width = 0
    /\ height = 0
    /\ buffer = <<>>
    /\ sink = <<>>
    /\ result = "none"
    /\ last = [op |-> "none", arg |-> <<>>]
    /\ pre = 0
    /\ calls = <<>>
    /\ trailers = 0
    /\ trailer_writes = <<>>
    /\ sigs = 0
    /\ size \in 0 .. MaxSize
    /\ \E x \in 0 .. MaxExcess : table = Palette(size, x)
    /\ fs = <<>>
    /\ chk = <<>>
    /\ emitted = <<>>
    /\ call = <<>>
    /\ ret = <<>>

\* flag_size(size)
CallFlagSize ==
    /\ fs = <<>>
    /\ fs' = <<flag_size(size)>>
    /\ UNCHANGED <<encVars, size, table, chk, emitted, call, ret>>

\* Self::check_color_table(table)
CallCheckColorTable ==
    /\ chk = <<>>
    /\ chk' = <<check_color_table(table)>>
    /\ UNCHANGED <<encVars, size, table, fs, emitted, call, ret>>

\* Self::write_color_table(writer, palette, padding) with the values
\* check_color_table returned, on a sink that accepts every byte
CallWriteColorTable ==
    /\ chk # <<>>
    /\ chk[1].ok
    /\ emitted = <<>>
    /\ emitted' = <<write_color_table(chk[1].palette, chk[1].padding)>>
    /\ UNCHANGED <<encVars, size, table, fs, chk, call, ret>>

NextTable == CallFlagSize \/ CallCheckColorTable \/ CallWriteColorTable

SpecTable == InitTable /\ [][NextTable]_vars

----------------------------------------------------------------------------
(* Single calls.  SpecCalls applies one method, once, to an argument drawn  *)
(* from the sets below, on an encoder whose sink is present and accepts     *)
(* every byte; call records the method and its arguments, ret what it did.  *)

\* n bytes that take every value 0..255 as n grows
Bytes(n) == [i \in 1 .. n |-> (i * 7) % 256]

\* data_with_min_code_size: a first byte b0 and n bytes after it
Payload(b0, n) == <<b0>> \o Bytes(n)

ImageBlocks ==
    {<<>>} \cup {Payload(b0, n) : b0 \in {2, 8}, n \in 0 .. MaxPayload}

\* the slices of a raw extension: empty, short, one full chunk, one more
Slices == {<<>>, <<7, 0>>, Bytes(255), Bytes(256)}
RawData ==
    {<<>>} \cup {<<a>> : a \in Slices} \cup {<<a, b>> : a, b \in Slices}
    \cup {<<a, b, c>> : a, b, c \in Slices}
RawFuncs == {1, 254}

Repeats ==
    {Infinite} \cup {Finite(n) : n \in 0 .. MaxLoops}
    \cup {Finite(n) : n \in {255, 256, 65535}}

\* pixel values around the powers of two and around 127
IndexBytes == {0, 3, 4, 127, 128, 255}
RECURSIVE SeqsUpTo(_, _)
\* the sequences over S of length 0..n
SeqsUpTo(S, n) ==
    IF n = 0 THEN {<<>>}
    ELSE LET shorter == SeqsUpTo(S, n - 1)
         IN  shorter \cup {Append(q, x) : q \in shorter, x \in S}
IndexSeqs == SeqsUpTo(IndexBytes, MaxIndices)
\* the inputs of lzw_encode: pixel values on both sides of every power of
\* two that the min code size can stand for
ScanBytes == {0, 3, 4, 7, 8, 15, 16, 127, 128, 255}
ScanSeqs == SeqsUpTo(ScanBytes, MaxIndices)

\* numbers of colors around the sizes a color table can have
PaletteSizes == {0, 1, 2, 3, 5, 16, 17, 256}
LocalPalettes == {<<>>} \cup {<<Palette(n, 0)>> : n \in PaletteSizes}

\* frames that differ in what the graphic control extension carries
ControlFrames ==
    {[Plain EXCEPT !.delay = d, !.dispose = m, !.needs_user_input = u,
                   !.transparent = t] :
        d \in {0, 1, 255, 256, 515, 65535},
        m \in {DisposeAny, DisposeKeep, DisposeBackground, DisposePrevious},
        u \in BOOLEAN,
        t \in {<<>>, <<0>>, <<1>>, <<255>>}}

\* frames that differ in what the image descriptor carries
DescriptorFrames ==
    {[Plain EXCEPT !.left = x, !.top = y, !.width = wh[1], !.height = wh[2],
                   !.interlaced = i, !.palette = p] :
        x \in {0, 258}, y \in {0, 513},
        wh \in {<<1, 1>>, <<65535, 256>>},
        i \in BOOLEAN, p \in LocalPalettes}

\* frames that differ in their dimensions and in the length of their buffer;
\* write_frame asserts that a frame without pixels has an empty buffer
Dimensions == {0, 1, 2, 3, 255, 256, 65535}
SizedFrames ==
    {[Plain EXCEPT !.width = x, !.height = y, !.buffer = Bytes(n)] :
        x \in Dimensions, y \in Dimensions, n \in 0 .. MaxIndices}
    \ {f \in {[Plain EXCEPT !.width = x, !.height = y, !.buffer = Bytes(n)] :
                 x \in Dimensions, y \in Dimensions, n \in 1 .. MaxIndices} :
           f.width = 0 \/ f.height = 0}

\* frames of one row that differ in their pixels
IndexFrames ==
    {[Plain EXCEPT !.width = Len(q), !.buffer = q] : q \in IndexSeqs}

\* frames whose buffer is taken to be LZW data already
PreEncodedFrames ==
    {[Plain EXCEPT !.buffer = Payload(b0, n)] :
        b0 \in (0 .. 13) \cup {255}, n \in {0, 1, 255, 256}}
    \cup {[Plain EXCEPT !.buffer = <<>>]}

CallFrames ==
    ControlFrames \cup DescriptorFrames \cup SizedFrames \cup IndexFrames

\* what Encoder.buffer may hold when a frame is written
ScratchBuffers == {<<>>, <<9, 9>>}

\* the variables a single call leaves alone
otherVars == <<encVars, size, table, fs, chk, emitted>>

\* Self::write_encoded_image_block(writer, d)
CallWriteEncodedImageBlock(d) ==
    /\ call = <<>>
    /\ call' = <<[op |-> "write_encoded_image_block", d |-> d]>>
    /\ ret' = <<Outcome(write_encoded_image_block(d), "Ok")>>
    /\ UNCHANGED otherVars

\* encoder.write_raw_extension(func, data)
CallWriteRawExtension(func, data) ==
    /\ call = <<>>
    /\ call' = <<[op |-> "write_raw_extension", func |-> func,
                  data |-> data]>>
    /\ ret' = <<write_raw_extension(TRUE, func, data)>>
    /\ UNCHANGED otherVars

\* encoder.set_repeat(repeat)
CallSetRepeat(r) ==
    /\ call = <<>>
    /\ call' = <<[op |-> "set_repeat", repeat |-> r]>>
    /\ ret' = <<set_repeat(TRUE, r)>>
    /\ UNCHANGED otherVars

\* lzw_encode(data, &mut buffer) on an empty buffer
CallLzwEncode(data) ==
    /\ call = <<>>
    /\ call' = <<[op |-> "lzw_encode", data |-> data]>>
    /\ ret' = <<Outcome(lzw_encode(data, <<>>), "Ok")>>
    /\ UNCHANGED otherVars

\* Encoder::new(w, cw, ch, palette)
CallNew(cw, ch, palette) ==
    /\ call = <<>>
    /\ call' = <<[op |-> "new", width |-> cw, height |-> ch,
                  palette |-> palette]>>
    /\ ret' = <<write_global_palette(cw, ch, palette)>>
    /\ UNCHANGED otherVars

\* encoder.write_frame(f) on an encoder with global_palette = gp and
\* buffer = buf
CallWriteFrame(gp, buf, f) ==
    /\ call = <<>>
    /\ call' = <<[op |-> "write_frame", gp |-> gp, buf |-> buf, f |-> f]>>
    /\ ret' = <<write_frame(TRUE, gp, buf, f, TRUE)>>
    /\ UNCHANGED otherVars

\* encoder.write_lzw_pre_encoded_frame(f)
CallWriteLzwPreEncodedFrame(gp, f) ==
    /\ call = <<>>
    /\ call' = <<[op |-> "write_lzw_pre_encoded_frame", gp |-> gp,
                  f |-> f]>>
    /\ ret' = <<write_lzw_pre_encoded_frame(TRUE, gp, f)>>
    /\ UNCHANGED otherVars

\* two encoders in the same state: one is handed f by write_frame, the
\* other a copy of f after make_lzw_pre_encoded by
\* write_lzw_pre_encoded_frame
CallBothWays(gp, buf, f) ==
    /\ call = <<>>
    /\ call' = <<[op |-> "both", gp |-> gp, buf |-> buf, f |-> f]>>
    /\ ret' = <<[direct  |-> write_frame(TRUE, gp, buf, f, TRUE),
                 encoded |-> make_lzw_pre_encoded(f),
                 pre     |-> write_lzw_pre_encoded_frame(
                                 TRUE, gp, make_lzw_pre_encoded(f))]>>
    /\ UNCHANGED otherVars

\* test_flag_size, its loop over i in 4..=255 (run here from 0): expected
\* is flag_size(1 + i) + 1 with 1 replaced by 2
test_expected(i) ==
    LET n == flag_size(1 + i) + 1
    IN  IF n = 1 THEN 2 ELSE n

\* actual in that loop: the expression lzw_encode computes its
\* min_code_size with
test_actual(i) == trailing_zeros(next_power_of_two(Max(i + 1, 4)))

\* one turn of that loop
CallTestFlagSize(i) ==
    /\ call = <<>>
    /\ call' = <<[op |-> "test_flag_size", i |-> i]>>
    /\ ret' = <<[expected |-> test_expected(i), actual |-> test_actual(i)]>>
    /\ UNCHANGED otherVars

\* no method has been applied yet
Fresh == call = <<>>

NextCalls ==
    \/ Fresh /\ \E d \in ImageBlocks : CallWriteEncodedImageBlock(d)
    \/ Fresh /\ \E func \in RawFuncs, data \in RawData :
                    CallWriteRawExtension(func, data)
    \/ Fresh /\ \E r \in Repeats : CallSetRepeat(r)
    \/ Fresh /\ \E data \in ScanSeqs : CallLzwEncode(data)
    \/ Fresh /\ \E cw \in {0, 1, 258, 65535}, ch \in {1, 513},
                    n \in PaletteSizes :
                    CallNew(cw, ch, Palette(n, 0))
    \/ Fresh /\ \E gp \in BOOLEAN, f \in CallFrames :
                    CallWriteFrame(gp, <<>>, f)
    \/ Fresh /\ \E gp \in BOOLEAN, f \in CallFrames \cup PreEncodedFrames :
                    CallWriteLzwPreEncodedFrame(gp, f)
    \/ Fresh /\ \E gp \in BOOLEAN, buf \in ScratchBuffers,
                    f \in CallFrames :
                    CallBothWays(gp, buf, f)
    \/ Fresh /\ \E i \in 0 .. 255 : CallTestFlagSize(i)

SpecCalls == Init /\ [][NextCalls]_vars

----------------------------------------------------------------------------
(* Write::write_all, the default method of a sink, one call of                *)
(* Write::write at a time (SpecWriteAll).  call holds the buffer given, the   *)
(* part of it still to write, the bytes the sink has accepted and what        *)
(* every call of write returned; ret holds what write_all returned.           *)

\* the longest buffer given to write_all
MaxWriteLen == 5

\* the buffers given to write_all
WriteBuffers == {[i \in 1 .. n |-> i] : n \in 0 .. MaxWriteLen}

\* Ok(n) and Err(e) returned by Write::write
WriteOk(n) == [ok |-> TRUE, n |-> n, err |-> ""]
WriteErr(e) == [ok |-> FALSE, n |-> 0, err |-> e]

\* what a sink may return when given buf: it accepts 0 to Len(buf) bytes, or
\* fails with an error of its own
WriteReturns(buf) ==
    {WriteOk(n) : n \in 0 .. Len(buf)}
    \cup {WriteErr(e) : e \in {"Interrupted", "BrokenPipe"}}

\* a loop that takes Ok(0) for the end of the writing
write_all_turn_zero_is_ok(buf, wr) ==
    IF wr.ok /\ wr.n = 0 THEN [done |-> TRUE, res |-> "Ok", buf |-> buf]
    ELSE IF wr.ok THEN [done |-> FALSE, res |-> "Ok", buf |-> Skip(buf, wr.n)]
    ELSE [done |-> TRUE, res |-> wr.err, buf |-> buf]

\* one turn of the loop of write_all: the match on what write(buf) returned
write_all_turn(buf, wr) ==
    IF wr.ok /\ wr.n = 0
    THEN [done |-> TRUE, res |-> "WriteZero", buf |-> buf]
    ELSE IF wr.ok THEN [done |-> FALSE, res |-> "Ok", buf |-> Skip(buf, wr.n)]
    ELSE [done |-> TRUE, res |-> wr.err, buf |-> buf]

\* write_all(buf) is called
WriteAllCalled(b) ==
    /\ call = <<>>
    /\ call' = <<[op |-> "write_all", buf |-> b, rest |-> b,
                  accepted |-> <<>>, writes |-> <<>>]>>
    /\ ret' = <<>>
    /\ UNCHANGED otherVars

\* while !buf.is_empty(): write(buf) returns wr, after the sink has accepted
\* the first wr.n bytes of buf
WriteAllTurn(wr) ==
    /\ call # <<>> /\ call[1].op = "write_all"
    /\ ret = <<>>
    /\ call[1].rest # <<>>
    /\ LET c == call[1]
           t == write_all_turn(c.rest, wr)
       IN  /\ call' = <<[c EXCEPT !.rest = t.buf,
                                  !.accepted = @ \o Take(c.rest, wr.n),
                                  !.writes = Append(@, wr)]>>
           /\ ret' = IF t.done THEN <<t.res>> ELSE <<>>
    /\ UNCHANGED otherVars

\* the loop ends on an empty buf: Ok(())
WriteAllReturns ==
    /\ call # <<>> /\ call[1].op = "write_all"
    /\ ret = <<>>
    /\ call[1].rest = <<>>
    /\ ret' = <<"Ok">>
    /\ UNCHANGED <<call, otherVars>>

NextWriteAll ==
    \/ Fresh /\ \E b \in WriteBuffers : WriteAllCalled(b)
    \/ \E wr \in WriteReturns(IF call = <<>> THEN <<>> ELSE call[1].rest) :
           WriteAllTurn(wr)
    \/ WriteAllReturns

SpecWriteAll == Init /\ [][NextWriteAll]_vars

----------------------------------------------------------------------------
(* What the properties below read off the state.                           *)

\* the last call was a frame write
FrameCall == last.op \in {"write_frame", "write_lzw_pre_encoded_frame"}

\* into_inner has returned Ok
Finalized ==
    last.op = "into_inner" /\ result = "Ok" /\ pc \in {"drop", "done", "panic"}

\* the encoder was released without a call of into_inner
ReleasedOnly == last.op # "into_inner" /\ pc \in {"done", "panic"}

\* the palette Encoder::new was given
GivenPalette == PaletteOf(calls[1].arg[3])

\* the table of test_flag_size
ExpectedFlagSize(n) ==
    CASE n >= 0   /\ n <= 2   -> 0
      [] n >= 3   /\ n <= 4   -> 1
      [] n >= 5   /\ n <= 8   -> 2
      [] n >= 9   /\ n <= 16  -> 3
      [] n >= 17  /\ n <= 32  -> 4
      [] n >= 33  /\ n <= 64  -> 5
      [] n >= 65  /\ n <= 128 -> 6
      [] n >= 129             -> 7

\* the positions at which pat occurs in s
Occurrences(pat, s) ==
    {i \in 1 .. Len(s) - Len(pat) + 1 : SubSeq(s, i, i + Len(pat) - 1) = pat}

\* the bytes a write call of the log appends when it returns Ok
BlockOf(c) ==
    CASE c.op = "write_extension" -> write_extension(TRUE, c.arg).out
      [] c.op = "write_raw_extension" ->
             write_raw_extension(TRUE, c.arg[1], c.arg[2]).out
      [] c.op = "write_frame" ->
             write_frame(TRUE, global_palette, <<>>, FrameOf(c.arg), TRUE).out
      [] c.op = "write_lzw_pre_encoded_frame" ->
             write_lzw_pre_encoded_frame(TRUE, global_palette,
                                         FrameOf(c.arg)).out

RECURSIVE BlocksFrom(_)
\* the blocks of the write calls calls[i..], in call order
BlocksFrom(i) ==
    IF i > Len(calls) THEN <<>> ELSE BlockOf(calls[i]) \o BlocksFrom(i + 1)

----------------------------------------------------------------------------
(* Properties.                                                             *)

\* C1: whatever the calls and whichever writes the sink refuses, finalization
\* puts at most one trailer byte 0x3B into the sink.  Once into_inner has
\* returned Ok the trailer was written exactly once, by a single write, it is
\* the last byte of the sink, and the release that follows writes nothing.  A
\* release without into_inner finds the sink present and makes exactly one
\* trailer write, which puts exactly one trailer byte into the sink when the
\* sink accepts it.
C1_TrailerAtMostOnce ==
    /\ trailers <= 1
    /\ Finalized =>
          /\ trailers = 1
          /\ trailer_writes = <<TRUE>>
          /\ sink = Take(sink, pre) \o <<59>>
          /\ pc # "panic"
    /\ ReleasedOnly =>
          /\ Len(trailer_writes) = 1
          /\ trailers = (IF trailer_writes[1] THEN 1 ELSE 0)
          /\ trailer_writes[1] => sink[Len(sink)] = 59

\* C1, witness: into_inner returned Ok after a write call and the encoder
\* has been released
C1_Witness ==
    /\ pc = "done"
    /\ Finalized
    /\ Len(calls) > 1
    /\ trailers = 1

\* C2 as stated: new(1, 1, []) and into_inner leave the 14 bytes
\* 47 49 46 38 39 61 01 00 01 00 80 00 00 3B, and new writes color table
\* bytes only for a non-empty palette
C2_Original ==
    /\ (Finalized /\ Len(calls) = 1 /\ calls[1].arg = <<1, 1, "empty">>)
          => sink = <<71, 73, 70, 56, 57, 97, 1, 0, 1, 0, 128, 0, 0, 59>>
    /\ (pc = "live" /\ last.op = "new" /\ GivenPalette = <<>>)
          => Len(sink) = 13

\* C2, amended: new(1, 1, []) and into_inner leave the 20 bytes
\* 47 49 46 38 39 61 01 00 01 00 80 00 00 00 00 00 00 00 00 3B; new always
\* writes, after the 13 bytes of signature and screen descriptor, a color
\* table of 3 * 2^(flag_size+1) bytes: the palette, then zero padding, which
\* for an empty palette is two zero entries
C2_MinimalStream ==
    /\ (Finalized /\ Len(calls) = 1 /\ calls[1].arg = <<1, 1, "empty">>)
          => sink = <<71, 73, 70, 56, 57, 97, 1, 0, 1, 0, 128, 0, 0,
                      0, 0, 0, 0, 0, 0, 59>>
    /\ (pc = "live" /\ last.op = "new")
          => LET n == Len(GivenPalette) \div 3
                 entries == 2 * Pow2(ExpectedFlagSize(n))
             IN  /\ Len(sink) = 13 + 3 * entries
                 /\ SubSeq(sink, 14, 13 + 3 * n) = Take(GivenPalette, 3 * n)
                 /\ \A i \in 14 + 3 * n .. Len(sink) : sink[i] = 0

\* C2, witness: the minimal file has been finalized
C2_Witness ==
    /\ pc = "done"
    /\ Finalized
    /\ Len(calls) = 1
    /\ calls[1].arg = <<1, 1, "empty">>
    /\ Len(sink) = 20

\* C3 as stated: a frame write that fails with TooManyColors,
\* MissingColorPalette or InvalidMinCodeSize has written nothing
C3_Claim ==
    (/\ pc = "live"
     /\ FrameCall
     /\ result \in {"TooManyColors", "MissingColorPalette",
                    "InvalidMinCodeSize"})
        => Len(sink) = pre

\* C4 as stated: once Encoder::new with a palette of 257 triplets has
\* returned and the encoder it built is released, new has returned
\* TooManyColors and the sink has received no byte
C4_Claim ==
    (/\ pc \in {"done", "panic"}
     /\ last.op = "new"
     /\ calls[1].arg[3] = "toobig")
        => (result = "TooManyColors" /\ sink = <<>>)

\* what a method returns on an encoder whose sink was taken
ClosedResult ==
    IF last.op = "write_extension" /\ last.arg = Repetitions(Finite(0))
    THEN "Ok"
    ELSE IF last.op = "write_frame"
            /\ Len(FrameOf(last.arg).buffer)
                   < FrameOf(last.arg).width * FrameOf(last.arg).height
    THEN "FrameBufferTooSmallForDimensions"
    ELSE IF last.op = "write_lzw_pre_encoded_frame"
            /\ FrameOf(last.arg).buffer # <<>>
            /\ FrameOf(last.arg).buffer[1] \notin 2 .. 11
    THEN "InvalidMinCodeSize"
    ELSE "WriterNotFound"

C6_StreamShape ==
    (/\ Finalized
     /\ \A i \in 1 .. Len(calls) : calls[i].res = "Ok")
        => /\ Take(sink, 6) = <<71, 73, 70, 56, 57, 97>>
           /\ sigs = 1
           /\ Occurrences(<<71, 73, 70, 56, 57, 97>>, sink) = {1}
           /\ sink = write_global_palette(width, height, GivenPalette).out
                     \o BlocksFrom(2) \o <<59>>
           /\ trailers = 1

\* C6, witness: a finalized stream of two write calls, one of them a frame
C6_Witness ==
    /\ pc = "done"
    /\ Finalized
    /\ Len(calls) = 3
    /\ \A i \in 1 .. Len(calls) : calls[i].res = "Ok"
    /\ \E i \in 2 .. 3 : calls[i].op = "write_frame"

\* the last call was a frame write that got as far as the palette match
PaletteMatched ==
    /\ FrameCall
    /\ result \notin {"Io", "WriterNotFound", "InvalidMinCodeSize",
                      "FrameBufferTooSmallForDimensions"}

\* C7 as stated: a frame write returns MissingColorPalette unless exactly one
\* of a local palette and a global palette is there
C7_Original ==
    PaletteMatched =>
        (result = "MissingColorPalette"
            <=> ((FrameOf(last.arg).palette # <<>>) = global_palette))

\* C7, amended: a frame write returns MissingColorPalette exactly when the
\* frame has no local palette and the encoder no global one; a local palette
\* is accepted beside a global palette
C7_MissingIffNeither ==
    PaletteMatched =>
        (result = "MissingColorPalette"
            <=> (FrameOf(last.arg).palette = <<>> /\ ~global_palette))

\* C7, witness: a frame with a local palette written to an encoder with a
\* global palette
C7_Witness ==
    /\ FrameCall
    /\ FrameOf(last.arg).palette # <<>>
    /\ global_palette
    /\ result = "Ok"

\* C8 as stated: check_color_table fails with TooManyColors exactly when the
\* length is no multiple of 3 or there are more than 256 triplets
C8_Original ==
    chk # <<>> =>
        (chk[1].ok <=> (Len(table) % 3 = 0 /\ Len(table) \div 3 <= 256))

\* C8, amended: check_color_table fails, with TooManyColors, exactly when the
\* palette holds more than 256 whole triplets; bytes past the last whole
\* triplet are ignored, whatever the length
C8_TooManyIffOver256 ==
    chk # <<>> =>
        /\ chk[1].ok <=> Len(table) \div 3 <= 256
        /\ ~chk[1].ok => chk[1].err = "TooManyColors"
        /\ chk[1].ok => chk[1].palette = Take(table, 3 * (Len(table) \div 3))

\* C8, witness: a palette whose length is no multiple of 3 was accepted
C8_Witness ==
    /\ chk # <<>>
    /\ chk[1].ok
    /\ Len(table) % 3 # 0
    /\ Len(table) > 3

\* C9: flag_size(n) is the piecewise table for every n in 0..300
C9_FlagSizeTable ==
    fs # <<>> => fs[1] = ExpectedFlagSize(size)

\* C9, witness: flag_size was applied to 300
C9_Witness ==
    /\ fs = <<7>>
    /\ size = 300

\* C10: for an accepted palette of n triplets, 1 <= n <= 256, the color table
\* written is 3 * 2^(flag_size(n)+1) bytes: the first 3n bytes of the palette,
\* then zeros; 5 triplets give 24 bytes
C10_ColorTableBytes ==
    (emitted # <<>> /\ Len(table) \div 3 \in 1 .. 256) =>
        LET n == Len(table) \div 3
            e == emitted[1]
        IN  /\ Len(e) = 3 * Pow2(flag_size(n) + 1)
            /\ Take(e, 3 * n) = Take(table, 3 * n)
            /\ \A i \in 3 * n + 1 .. Len(e) : e[i] = 0
            /\ Len(e) - 3 * n = 3 * (Pow2(flag_size(n) + 1) - n)
            /\ n = 5 => (flag_size(n) = 2 /\ Len(e) = 24)

\* C10, witness: a palette of 5 triplets was written as 24 bytes
C10_Witness ==
    /\ emitted # <<>>
    /\ Len(table) \div 3 = 5
    /\ Len(emitted[1]) = 24

----------------------------------------------------------------------------
(* Properties of single calls (SpecCalls).                                 *)

\* the method op was applied
Called(op) == call # <<>> /\ call[1].op = op

RECURSIVE ReadSubBlocks(_, _)
\* a reader of data sub-blocks: from position i of s, each length byte n > 0
\* is followed by n bytes of payload, and a length byte 0 ends the reading.
\* ok says whether the terminator was found, blocks are the payloads read,
\* next is the position after the terminator
ReadSubBlocks(s, i) ==
    IF i > Len(s) \/ i + s[i] > Len(s)
    THEN [ok |-> FALSE, blocks |-> <<>>, next |-> i]
    ELSE IF s[i] = 0
    THEN [ok |-> TRUE, blocks |-> <<>>, next |-> i + 1]
    ELSE LET r == ReadSubBlocks(s, i + s[i] + 1)
         IN  [ok |-> r.ok,
              blocks |-> <<SubSeq(s, i + 1, i + s[i])>> \o r.blocks,
              next |-> r.next]

RECURSIVE Flat(_)
\* the concatenation of a sequence of byte strings
Flat(ss) == IF ss = <<>> THEN <<>> ELSE Head(ss) \o Flat(Tail(ss))

\* s holds, from position i to its end, non-empty sub-blocks and one
\* terminator, which is its last byte
EndsAtTerminator(s, i) ==
    LET r == ReadSubBlocks(s, i)
    IN  r.ok /\ r.next = Len(s) + 1

\* the bytes of the color table that follows the image descriptor of f
LocalTableLen(f) ==
    IF f.palette = <<>> THEN 0
    ELSE 3 * 2 * Pow2(ExpectedFlagSize(Len(f.palette[1]) \div 3))

\* C11: write_encoded_image_block, given B, writes B[0] as a bare byte and
\* then B[1..] in sub-blocks: each but the last holds 255 bytes after a
\* length byte 0xFF, the last holds the non-empty remainder, the payloads
\* put together are B[1..], and one 0x00 follows.  510 bytes give
\* FF,255B,FF,255B,00; 511 bytes give FF,255B,FF,255B,01,1B,00; none gives 00.
C11_SubBlockFraming ==
    (Called("write_encoded_image_block") /\ call[1].d # <<>>) =>
        LET B   == call[1].d
            S   == Tail(B)
            out == ret[1].out
            r   == ReadSubBlocks(out, 2)
            nb  == Len(r.blocks)
        IN  /\ out[1] = B[1]
            /\ r.ok
            /\ r.next = Len(out) + 1
            /\ Flat(r.blocks) = S
            /\ nb = (Len(S) + 254) \div 255
            /\ \A j \in 1 .. nb - 1 : Len(r.blocks[j]) = 255
            /\ nb > 0 => Len(r.blocks[nb]) = Len(S) - 255 * (nb - 1)
            /\ Len(out) = 1 + Len(S) + nb + 1
            /\ Len(S) = 0 => out = <<B[1], 0>>
            /\ Len(S) = 510 =>
                   out = <<B[1], 255>> \o SubSeq(S, 1, 255) \o <<255>>
                         \o SubSeq(S, 256, 510) \o <<0>>
            /\ Len(S) = 511 =>
                   out = <<B[1], 255>> \o SubSeq(S, 1, 255) \o <<255>>
                         \o SubSeq(S, 256, 510) \o <<1, S[511], 0>>

\* C11, witness: a payload of 511 bytes was written as three sub-blocks
C11_Witness ==
    /\ Called("write_encoded_image_block")
    /\ Len(call[1].d) = 512
    /\ Len(ret[1].out) = 1 + 511 + 3 + 1

\* C12: in what the encoder writes, the LZW data of a frame, the graphic
\* control extension, the Netscape extension and a raw extension each end
\* with a 0x00 byte, and no length byte before it is 0x00, also when the
\* data of a raw extension holds empty slices
C12_Terminated ==
    /\ Called("write_encoded_image_block") =>
           EndsAtTerminator(ret[1].out, 2)
    /\ Called("write_raw_extension") =>
           /\ ret[1].res = "Ok"
           /\ EndsAtTerminator(ret[1].out, 3)
           /\ Flat(ReadSubBlocks(ret[1].out, 3).blocks) = Flat(call[1].data)
    /\ (Called("set_repeat") /\ ret[1].out # <<>>) =>
           EndsAtTerminator(ret[1].out, 3)
    /\ ((Called("write_frame") \/ Called("write_lzw_pre_encoded_frame"))
            /\ ret[1].res = "Ok") =>
           /\ ReadSubBlocks(ret[1].out, 3).ok
           /\ ReadSubBlocks(ret[1].out, 3).next = 9
           /\ EndsAtTerminator(ret[1].out, 20 + LocalTableLen(call[1].f))

\* C12, witness: a raw extension whose data holds an empty slice between two
\* others was written
C12_Witness ==
    /\ Called("write_raw_extension")
    /\ Len(call[1].data) = 3
    /\ call[1].data[1] # <<>>
    /\ call[1].data[2] = <<>>
    /\ call[1].data[3] # <<>>
    /\ ret[1].res = "Ok"

\* the largest byte of data, 0 for no data
TrueMax(data) ==
    IF data = <<>> THEN 0
    ELSE CHOOSE m \in {data[i] : i \in 1 .. Len(data)} :
             \A i \in 1 .. Len(data) : data[i] <= m

\* log2 of the smallest power of two >= n, for 1 <= n <= 256
Log2Ceil(n) == CHOOSE k \in 0 .. 8 : Pow2(k) >= n /\ (k = 0 \/ Pow2(k - 1) < n)

\* C13: the min code size byte s that lzw_encode puts first is
\* log2(next_power_of_two(max(M + 1, 4))) for M the largest byte of the whole
\* input, although the scan stops at the first byte above 127; so
\* 2 <= s <= 8 and 2^s > M for a non-empty input, and s = 2 for the empty one
C13_MinCodeSize ==
    Called("lzw_encode") =>
        LET data == call[1].data
            M    == TrueMax(data)
            s    == ret[1].out[1]
        IN  /\ s = Log2Ceil(IF M + 1 > 4 THEN M + 1 ELSE 4)
            /\ data # <<>> => (2 <= s /\ s <= 8 /\ Pow2(s) > M)
            /\ data = <<>> => s = 2

\* C13, witness: an input whose first byte above 127 is not its largest
C13_Witness ==
    /\ Called("lzw_encode")
    /\ Len(call[1].data) >= 2
    /\ call[1].data[1] = 128
    /\ call[1].data[2] = 255
    /\ ret[1].out[1] = 8

\* C14: write_lzw_pre_encoded_frame returns InvalidMinCodeSize exactly when
\* the first byte b of the frame's buffer is not in 2..11 (0x01 and 0x0C
\* fail, 0x08 passes); when it returns Ok the buffer is written as it is: b
\* as the min code size byte, the rest in sub-blocks, uncompressed
C14_PreEncodedValidation ==
    Called("write_lzw_pre_encoded_frame") =>
        LET f     == call[1].f
            B     == f.buffer
            o     == ret[1]
            start == 19 + LocalTableLen(f)
            r     == ReadSubBlocks(o.out, start + 1)
        IN  /\ o.res = "InvalidMinCodeSize"
                   <=> (B # <<>> /\ ~(2 <= B[1] /\ B[1] <= 11))
            /\ (B # <<>> /\ B[1] \in {1, 12}) => o.res = "InvalidMinCodeSize"
            /\ (B # <<>> /\ B[1] = 8) => o.res # "InvalidMinCodeSize"
            /\ (B # <<>> /\ B[1] = 8
                   /\ (IF f.palette = <<>> THEN call[1].gp
                       ELSE Len(f.palette[1]) \div 3 <= 256))
                   => o.res = "Ok"
            /\ (o.res = "Ok" /\ B # <<>>) =>
                   /\ o.out[start] = B[1]
                   /\ r.ok
                   /\ r.next = Len(o.out) + 1
                   /\ Flat(r.blocks) = Tail(B)

\* C14, witness: a buffer of 0x08 and 256 more bytes was accepted and written
C14_Witness ==
    /\ Called("write_lzw_pre_encoded_frame")
    /\ Len(call[1].f.buffer) = 257
    /\ call[1].f.buffer[1] = 8
    /\ ret[1].res = "Ok"

\* C15: when write_frame accepts a frame, write_lzw_pre_encoded_frame of a
\* copy that make_lzw_pre_encoded has compressed, called on an encoder in the
\* same state, appends the same bytes as write_frame does: control
\* extension, image descriptor, local color table and image data
C15_PreEncodedSameBytes ==
    (Called("both") /\ ret[1].direct.res = "Ok") =>
        /\ ret[1].pre.res = "Ok"
        /\ ret[1].pre.out = ret[1].direct.out

\* C15, witness: a frame of three pixels written both ways by encoders whose
\* scratch buffer was not empty
C15_Witness ==
    /\ Called("both")
    /\ call[1].buf # <<>>
    /\ Len(call[1].f.buffer) = 3
    /\ call[1].f.buffer # ret[1].encoded.buffer
    /\ ret[1].direct.res = "Ok"
    /\ Len(ret[1].pre.out) > 20

\* C16: set_repeat(Finite(0)) returns Ok and writes nothing; set_repeat of
\* Infinite or of Finite(n), n >= 1, writes the 19 bytes 0x21, 0xFF, 0x0B,
\* "NETSCAPE2.0", 0x03, 0x01, loops low byte, loops high byte, 0x00, where
\* loops is 0 for Infinite and n for Finite(n); Finite(3) gives 03 00
C16_RepeatBytes ==
    Called("set_repeat") =>
        LET r     == call[1].repeat
            o     == ret[1]
            loops == IF r.finite THEN r.no ELSE 0
        IN  /\ o.res = "Ok"
            /\ (r.finite /\ r.no = 0) => o.out = <<>>
            /\ ~(r.finite /\ r.no = 0) =>
                   /\ o.out = <<33, 255, 11,
                                78, 69, 84, 83, 67, 65, 80, 69, 50, 46, 48,
                                3, 1, loops % 256, loops \div 256, 0>>
                   /\ Len(o.out) = 19
            /\ (r.finite /\ r.no = 3) => SubSeq(o.out, 17, 18) = <<3, 0>>

\* C16, witness: set_repeat(Finite(3)) wrote its 19 bytes
C16_Witness ==
    /\ Called("set_repeat")
    /\ call[1].repeat.finite
    /\ call[1].repeat.no = 3
    /\ Len(ret[1].out) = 19

\* a frame was written by either frame method, which returned Ok
FrameWritten ==
    /\ (Called("write_frame") \/ Called("write_lzw_pre_encoded_frame"))
    /\ ret[1].res = "Ok"

\* C17: every write_frame and write_lzw_pre_encoded_frame that returns Ok
\* has written, right before the image descriptor byte 0x2C, the 8 bytes
\* 0x21, 0xF9, 0x04, flags, delay low, delay high, trns, 0x00 of a graphic
\* control extension, also when delay, dispose, needs_user_input and
\* transparent are all default; bit 0 of flags says that transparent is set,
\* bit 1 is needs_user_input, bits 2-4 are the disposal method (Any 0, Keep 1,
\* Background 2, Previous 3), and trns is 0 when no transparent index is set
C17_ControlExtension ==
    FrameWritten =>
        LET f     == call[1].f
            out   == ret[1].out
            flags == (IF f.transparent # <<>> THEN 1 ELSE 0)
                     + (IF f.needs_user_input THEN 2 ELSE 0)
                     + 4 * f.dispose
            trns  == IF f.transparent # <<>> THEN f.transparent[1] ELSE 0
        IN  /\ SubSeq(out, 1, 8)
                   = <<33, 249, 4, flags, f.delay % 256, f.delay \div 256,
                       trns, 0>>
            /\ out[9] = 44
            /\ out[4] < 32
            /\ f.dispose \in 0 .. 3

\* C17, witness: a frame with a delay, disposal method Previous, user input
\* and a transparent index was written by write_frame
C17_Witness ==
    /\ Called("write_frame")
    /\ ret[1].res = "Ok"
    /\ call[1].f.delay = 515
    /\ call[1].f.dispose = 3
    /\ call[1].f.needs_user_input
    /\ call[1].f.transparent = <<255>>
    /\ ret[1].out[4] = 15

\* C17, second witness: a frame whose control fields are all default was
\* written with its control extension
C17_WitnessDefault ==
    /\ Called("write_frame")
    /\ ret[1].res = "Ok"
    /\ call[1].f.delay = 0
    /\ call[1].f.dispose = 0
    /\ ~call[1].f.needs_user_input
    /\ call[1].f.transparent = <<>>
    /\ SubSeq(ret[1].out, 1, 9) = <<33, 249, 4, 0, 0, 0, 0, 0, 44>>

\* a * b > n for naturals, without forming the product
ProductExceeds(a, b, n) == b # 0 /\ a > n \div b

\* C18: write_frame returns FrameBufferTooSmallForDimensions exactly when
\* width * height, taken without wrap-around, does not fit a usize or is
\* greater than the length of the buffer; nothing has been written then
C18_BufferTooSmall ==
    Called("write_frame") =>
        LET f == call[1].f
        IN  /\ ret[1].res = "FrameBufferTooSmallForDimensions"
                   <=> \/ ProductExceeds(f.width, f.height,
                                         Pow2(UsizeBits) - 1)
                       \/ ProductExceeds(f.width, f.height, Len(f.buffer))
            /\ ret[1].res = "FrameBufferTooSmallForDimensions"
                   => ret[1].out = <<>>

\* C18, witness: a frame whose width * height does not fit a usize was
\* refused
C18_Witness ==
    /\ Called("write_frame")
    /\ call[1].f.width = 65535
    /\ call[1].f.height = 65535
    /\ ret[1].res = "FrameBufferTooSmallForDimensions"

\* C18, second witness: a frame with a buffer of exactly width * height
\* bytes was written
C18_WitnessExact ==
    /\ Called("write_frame")
    /\ call[1].f.width = 3
    /\ call[1].f.height = 1
    /\ Len(call[1].f.buffer) = 3
    /\ ret[1].res = "Ok"

\* bit b of the byte n
Bit(n, b) == (n \div Pow2(b)) % 2

\* C19: Encoder::new writes, in this order, "GIF89a", the width and the
\* height as u16 low byte first, a flags byte, 0x00 and 0x00; the flags byte
\* has bit 7 set, bit 3 clear, and bits 6-4 and bits 2-0 both equal to
\* flag_size of the palette; a palette of 2 colors gives flags 0x80 and a
\* table of 6 bytes
C19_ScreenDescriptor ==
    (Called("new") /\ ret[1].res = "Ok") =>
        LET cw    == call[1].width
            ch    == call[1].height
            n     == Len(call[1].palette) \div 3
            out   == ret[1].out
            flags == out[11]
        IN  /\ SubSeq(out, 1, 6) = <<71, 73, 70, 56, 57, 97>>
            /\ SubSeq(out, 7, 10)
                   = <<cw % 256, cw \div 256, ch % 256, ch \div 256>>
            /\ SubSeq(out, 12, 13) = <<0, 0>>
            /\ Bit(flags, 7) = 1
            /\ Bit(flags, 3) = 0
            /\ (flags \div 16) % 8 = ExpectedFlagSize(n)
            /\ flags % 8 = ExpectedFlagSize(n)
            /\ n = 2 => (flags = 128 /\ Len(out) = 13 + 6)

\* C19, witness: new was given a canvas of 258 x 513 and 256 colors
C19_Witness ==
    /\ Called("new")
    /\ call[1].width = 258
    /\ call[1].height = 513
    /\ Len(call[1].palette) = 768
    /\ SubSeq(ret[1].out, 7, 11) = <<2, 1, 1, 2, 247>>

\* C20: the image descriptor of every frame written is the 10 bytes 0x2C,
\* left, top, width, height (each u16, low byte first) and flags; bit 7 of
\* flags is set exactly when the frame has a local palette, bit 6 exactly
\* when it is interlaced, bits 5-3 are 0, and bits 2-0 are flag_size of the
\* local palette, 0 without one; the local color table follows exactly when
\* bit 7 is set, and the image data comes next
C20_ImageDescriptor ==
    FrameWritten =>
        LET f     == call[1].f
            out   == ret[1].out
            flags == out[18]
            local == f.palette # <<>>
            n     == IF local THEN Len(f.palette[1]) \div 3 ELSE 0
            T     == IF Bit(flags, 7) = 1 THEN 3 * 2 * Pow2(flags % 8) ELSE 0
        IN  /\ SubSeq(out, 9, 17)
                   = <<44, f.left % 256, f.left \div 256,
                       f.top % 256, f.top \div 256,
                       f.width % 256, f.width \div 256,
                       f.height % 256, f.height \div 256>>
            /\ Bit(flags, 7) = 1 <=> local
            /\ Bit(flags, 6) = 1 <=> f.interlaced
            /\ (flags \div 8) % 8 = 0
            /\ flags % 8 = (IF local THEN ExpectedFlagSize(n) ELSE 0)
            /\ local =>
                   /\ SubSeq(out, 19, 18 + 3 * n) = Take(f.palette[1], 3 * n)
                   /\ \A i \in 19 + 3 * n .. 18 + T : out[i] = 0
            /\ EndsAtTerminator(out, 20 + T)

\* C20, witness: an interlaced frame with 17 local colors, at (258, 513) and
\* 65535 x 256 large, was written from LZW data
C20_Witness ==
    /\ Called("write_lzw_pre_encoded_frame")
    /\ ret[1].res = "Ok"
    /\ call[1].f.interlaced
    /\ call[1].f.palette # <<>>
    /\ SubSeq(ret[1].out, 9, 18) = <<44, 2, 1, 1, 2, 255, 255, 0, 1, 196>>

\* the chunks of one slice: 255 bytes each, the last one what is left
ChunksOf(s) ==
    [j \in 1 .. (Len(s) + 254) \div 255 |->
        SubSeq(s, 255 * (j - 1) + 1, Min(255 * j, Len(s)))]

\* C21: write_raw_extension(func, data) writes 0x21, the byte func, then for
\* each slice of data, in order, the slice's own chunks of at most 255 bytes,
\* each after its length byte (no chunk holds bytes of two slices, a slice
\* of more than 255 bytes is divided), then one 0x00
C21_RawExtension ==
    Called("write_raw_extension") =>
        LET data == call[1].data
            out  == ret[1].out
            r    == ReadSubBlocks(out, 3)
        IN  /\ ret[1].res = "Ok"
            /\ out[1] = 33
            /\ out[2] = call[1].func
            /\ r.ok
            /\ r.next = Len(out) + 1
            /\ r.blocks = Flat([k \in 1 .. Len(data) |-> ChunksOf(data[k])])
            /\ \A j \in 1 .. Len(r.blocks) : Len(r.blocks[j]) \in 1 .. 255
            /\ Len(out) = 2 + Len(Flat(data)) + Len(r.blocks) + 1

\* C21, witness: a slice of two bytes and a slice of 256 bytes were written
\* as chunks of 2, 255 and 1 bytes
C21_Witness ==
    /\ Called("write_raw_extension")
    /\ Len(call[1].data) = 2
    /\ Len(call[1].data[1]) = 2
    /\ Len(call[1].data[2]) = 256
    /\ Len(ret[1].out) = 2 + 3 + 256 + 2 + 1

\* C22: write_all(buf) hands the sink the bytes of buf in order and once
\* each; it returns Ok only when the sink has accepted all of buf, which
\* takes at most Len(buf) calls of write when each accepts one byte or more;
\* it returns WriteZero at the first call of write that accepts nothing
\* while bytes remain, and the sink's own error at the first call that fails
C22_WriteAll ==
    Called("write_all") =>
        LET c  == call[1]
            nw == Len(c.writes)
        IN  /\ c.accepted \o c.rest = c.buf
            /\ nw <= Len(c.buf)
            /\ \A j \in 1 .. nw - 1 : c.writes[j].ok /\ c.writes[j].n >= 1
            /\ (nw > 0 /\ ~(c.writes[nw].ok /\ c.writes[nw].n >= 1)) =>
                   /\ Len(c.accepted) < Len(c.buf)
                   /\ ret = <<IF c.writes[nw].ok THEN "WriteZero"
                              ELSE c.writes[nw].err>>
            /\ (ret # <<>> /\ (nw = 0 \/ (c.writes[nw].ok
                                          /\ c.writes[nw].n >= 1))) =>
                   ret = <<"Ok">> /\ c.accepted = c.buf
            /\ ret = <<"Ok">> => c.accepted = c.buf

\* C22, witness: five bytes were accepted in three calls of write and
\* write_all returned Ok
C22_Witness ==
    /\ Called("write_all")
    /\ Len(call[1].buf) = 5
    /\ Len(call[1].writes) = 3
    /\ ret = <<"Ok">>

\* C22, witness: a call of write accepted nothing after two bytes of five
C22_WitnessZero ==
    /\ Called("write_all")
    /\ Len(call[1].buf) = 5
    /\ Len(call[1].accepted) = 2
    /\ ret = <<"WriteZero">>

\* C22, witness: a call of write failed after two bytes of five
C22_WitnessErr ==
    /\ Called("write_all")
    /\ Len(call[1].buf) = 5
    /\ Len(call[1].accepted) = 2
    /\ ret = <<"BrokenPipe">>

\* a write call of the caller failed with a sink error and the encoder was
\* then released without into_inner
ReleasedAfterSinkError ==
    /\ ReleasedOnly
    /\ last.op # "new"
    /\ result = "Io"

\* C23 as stated: when an encoder on which a write call failed with a sink
\* error is released without into_inner, the release has written the trailer
\* once, and it has ended without a panic also when that write failed
C23_Original ==
    ReleasedAfterSinkError =>
        (Len(trailer_writes) = 1 /\ pc = "done")

\* C23: when an encoder on which a write call failed with a sink error is
\* released without into_inner, the release attempts the trailer write once
\* and surfaces no error; when that write fails, the release ends silently
\* in a build with the feature raii_no_panic and panics in a build without
C23_ReleaseAfterSinkError ==
    [][\A feature \in BOOLEAN :
           (Drop(feature) /\ pc = "live" /\ last.op # "new" /\ result = "Io")
               => /\ trailer_writes = <<>>
                  /\ Len(trailer_writes') = 1
                  /\ result' = result
                  /\ pc' = IF trailer_writes'[1] \/ feature
                           THEN "done" ELSE "panic"]_vars

\* C23, witness: the trailer write of the release failed after a failed
\* write call, and the release ended without a panic
C23_Witness ==
    /\ ReleasedAfterSinkError
    /\ trailer_writes = <<FALSE>>
    /\ pc = "done"

\* C23, witness: the trailer write of the release failed after a failed
\* write call, and the release panicked
C23_WitnessPanic ==
    /\ ReleasedAfterSinkError
    /\ trailer_writes = <<FALSE>>
    /\ pc = "panic"

\* C24: the bytes a successful write_frame appends to the sink, and the
\* scratch buffer it leaves, are those the same frame gives on an encoder
\* with the same global palette flag and an empty scratch buffer, whatever
\* frames and extensions were written before
C24_FrameBytesIndependent ==
    (pc = "live" /\ last.op = "write_frame" /\ result = "Ok") =>
        LET f     == FrameOf(last.arg)
            fresh == write_frame(TRUE, global_palette, <<>>, f, TRUE)
            h     == write_frame_header(TRUE, global_palette, f)
            mcs   == MinCodeSize(f.buffer)
            data  == SubSeq(sink, pre + Len(h.out) + 1, Len(sink))
        IN  /\ SubSeq(sink, pre + 1, Len(sink)) = fresh.out
            /\ buffer = fresh.buf
            /\ buffer = <<mcs>> \o LzwEncodeAll(f.buffer, mcs)
            /\ data[1] = mcs
            /\ EndsAtTerminator(data, 2)
            /\ Flat(ReadSubBlocks(data, 2).blocks) = Tail(buffer)

\* C24, witness: a frame was written after a different frame, whose LZW
\* data the scratch buffer held
C24_Witness ==
    /\ pc = "live"
    /\ Len(calls) = 3
    /\ calls[2].op = "write_frame" /\ calls[2].res = "Ok"
    /\ calls[3].op = "write_frame" /\ calls[3].res = "Ok"
    /\ calls[2].arg # calls[3].arg

\* C25: for every largest index i in 4..255, the min code size
\* log2(next_power_of_two(max(i + 1, 4))) that lzw_encode computes equals
\* flag_size(i + 1) + 1, which is never the 1 that the test replaces by 2
C25_MinCodeSizeIsFlagSizePlusOne ==
    (Called("test_flag_size") /\ call[1].i \in 4 .. 255) =>
        LET i == call[1].i
        IN  /\ ret[1].actual = ret[1].expected
            /\ ret[1].actual = flag_size(i + 1) + 1
            /\ ret[1].actual = MinCodeSize(<<i>>)
            /\ ret[1].actual = lzw_encode(<<0, i>>, <<>>)[1]
            /\ ret[1].actual \in 3 .. 8
            /\ Pow2(ret[1].actual) > i
            /\ Pow2(ret[1].actual - 1) <= i

\* C25, witness: both sides were computed for 4, for 128 and for 255
C25_Witness ==
    /\ Called("test_flag_size")
    /\ call[1].i \in {4, 128, 255}
    /\ ret[1].actual = IF call[1].i = 4 THEN 3 ELSE 8

\* C26 as stated: on an encoder Encoder::new has returned, the global
\* palette flag is true exactly when the palette given to new is not empty
C26_Original ==
    (pc # "start" /\ calls[1].res = "Ok") =>
        global_palette = (GivenPalette # <<>>)

\* C26: on an encoder Encoder::new has returned, the global palette flag is
\* true exactly when the palette given to new holds at least one whole
\* triplet (three bytes or more), in every state that follows: no later
\* operation changes the flag
C26_GlobalPaletteFlag ==
    (pc # "start" /\ calls[1].res = "Ok") =>
        global_palette = (Len(GivenPalette) >= 3)

\* C26, witness: two write calls were made on an encoder built with a
\* palette of two bytes, and the flag is false
C26_Witness ==
    /\ pc = "live"
    /\ calls[1].arg[3] = "short"
    /\ Len(calls) = 3
    /\ ~global_palette

\* C26, witness: two write calls were made on an encoder built with a
\* palette of two colors, and the flag is true
C26_WitnessSet ==
    /\ pc = "live"
    /\ calls[1].arg[3] = "two"
    /\ Len(calls) = 3
    /\ global_palette

\* C27: on an encoder Encoder::new has returned, the sink is present in
\* every state before into_inner or the release, also after a call that
\* failed; so no call, into_inner included, returns WriterNotFound
C27_SinkPresent ==
    /\ pc = "live" => w
    /\ result # "WriterNotFound"
    /\ \A j \in 1 .. Len(calls) : calls[j].res # "WriterNotFound"
    /\ (pc = "drop" /\ last.op = "new") => w

\* C27, witness: the sink failed in the second write call, and the encoder
\* still holds it
C27_Witness ==
    /\ pc = "live"
    /\ Len(calls) = 3
    /\ calls[2].res = "Ok"
    /\ calls[3].res = "Io"
    /\ w

\* C28: when the trailer write of into_inner fails, into_inner returns the
\* Io error and leaves the sink in the encoder, and the release that follows
\* attempts the trailer write a second time; the sink is taken only by an
\* into_inner whose trailer write succeeded
C28_FailedFinalize ==
    /\ (last.op = "into_inner" /\ result = "Io") =>
           /\ w
           /\ trailer_writes # <<>> /\ ~trailer_writes[1]
           /\ pc = "drop" => Len(trailer_writes) = 1
           /\ pc \in {"done", "panic"} => Len(trailer_writes) = 2
    /\ (pc # "start" /\ ~w) =>
           /\ last.op = "into_inner" /\ result = "Ok"
           /\ trailer_writes = <<TRUE>>

\* C28, witness: the trailer write of into_inner failed and the one of the
\* release succeeded
C28_Witness ==
    /\ last.op = "into_inner"
    /\ result = "Io"
    /\ pc = "done"
    /\ trailer_writes = <<FALSE, TRUE>>
    /\ w

\* the bytes of out after the control extension, the image descriptor and
\* the local color table of f
ImageData(out, f) ==
    SubSeq(out, 8 + 10 + LocalTableLen(f) + 1, Len(out))

\* C29: write_lzw_pre_encoded_frame with an empty buffer never returns
\* InvalidMinCodeSize, and after the header it writes the two bytes 2 and
\* 0x00; write_frame with an empty buffer (a frame of no pixels) writes the
\* min code size 2, then the LZW encoding of the empty input as one
\* sub-block, then 0x00
C29_EmptyBuffer ==
    /\ (Called("write_lzw_pre_encoded_frame") /\ call[1].f.buffer = <<>>) =>
           /\ ret[1].res # "InvalidMinCodeSize"
           /\ ret[1].res = "Ok" => ImageData(ret[1].out, call[1].f) = <<2, 0>>
    /\ (Called("write_frame") /\ call[1].f.buffer = <<>>
            /\ ret[1].res = "Ok") =>
           LET enc == LzwEncodeAll(<<>>, 2)
           IN  /\ call[1].f.width = 0 \/ call[1].f.height = 0
               /\ enc # <<>>
               /\ Len(enc) <= 255
               /\ ImageData(ret[1].out, call[1].f)
                      = <<2, Len(enc)>> \o enc \o <<0>>

\* C29, witness: a frame with an empty buffer was written as LZW data
C29_Witness ==
    /\ Called("write_lzw_pre_encoded_frame")
    /\ call[1].f.buffer = <<>>
    /\ ret[1].res = "Ok"
    /\ Len(ret[1].out) = 8 + 10 + 2

\* C29, witness: a frame of no pixels was written by write_frame
C29_WitnessZeroArea ==
    /\ Called("write_frame")
    /\ call[1].f.buffer = <<>>
    /\ call[1].f.width = 0
    /\ ret[1].res = "Ok"
    /\ Len(ret[1].out) > 8 + 10 + 2

====
